---- MODULE Spec2Model ----
(***************************************************************************)
(* A model of the query builder (DbQuery, src/src/query.js) and of the     *)
(* entity type (DbModel, src/src/model.js): its static query entry points, *)
(* its instances and their data, and save, remove and refresh against the  *)
(* Plug. The Plug is no part of the sources; what it does is taken from    *)
(* its contract.                                                           *)
(*                                                                         *)
(* Spec is the builder; SpecOwn the instances and the mappings they refer  *)
(* to; SpecEntity the instances and the store, with every call awaited;    *)
(* SpecPlug one builder queried against a table of records; SpecAmounts    *)
(* the builder with limit and skip called with amounts of any kind;        *)
(* SpecOverlap the instances with calls of save and remove overlapping.    *)
(*                                                                         *)
(* A JavaScript value is a record [tag, n, s]: tag is the kind of value,   *)
(* n the number (0 when the value is no number) and s the text of a string *)
(* (or the literal of a mapping) as a sequence of characters.              *)
(***************************************************************************)
EXTENDS Integers, Sequences, FiniteSets, TLC

\* Bounds of the model.
MaxQueries == 2      \* builders constructed
MaxNodes == 2        \* nodes pushed, over all builders
MaxEntities == 2     \* entities constructed
MaxIds == 2          \* identities the Plug issues
MaxVal == 2          \* largest number a field is incremented to
MaxRecords == 3      \* records the queried table holds

VARIABLES
    nq,       \* number of DbQuery instances constructed so far
    qModel,   \* this._Model of each builder
    qDb,      \* this._db of each builder
    pts,      \* this.pts of each builder
    last,     \* the call made last: its arguments, its outcome, its Plug calls
    ne,       \* number of DbModel instances constructed so far
    eRef,     \* this.__data of each entity: the object it refers to
    eId,      \* this.__id of each entity
    heap,     \* the mappings: the one the application holds, and one per entity
    store,    \* the records the Plug stores, by identity
    nIds,     \* number of identities the Plug has issued
    pend,     \* the calls of the Plug that are in flight
    eHeld,    \* by identity, the data the saving entity held at the latest successful save
    elast,    \* the entity call made last and its outcome
    table,    \* the records of the entity type as the Plug's queries see them, in stored order
    result    \* what the Plug answered to the latest terminal action

qvars == <<nq, qModel, qDb, pts, last>>
evars == <<ne, eRef, eId, heap, store, nIds, pend, eHeld, elast>>
pvars == <<table, result>>
vars == <<nq, qModel, qDb, pts, last, ne, eRef, eId, heap, store, nIds, pend, eHeld, elast,
          table, result>>

-----------------------------------------------------------------------------
\* JavaScript values

Undef == [tag |-> "undefined", n |-> 0, s |-> <<>>]
Null == [tag |-> "null", n |-> 0, s |-> <<>>]
Num(i) == [tag |-> "number", n |-> i, s |-> <<>>]
Str(chars) == [tag |-> "string", n |-> 0, s |-> chars]
Obj(literal) == [tag |-> "object", n |-> 0, s |-> literal]
Bool(b) == [tag |-> "boolean", n |-> IF b THEN 1 ELSE 0, s |-> <<>>]

\* `v instanceof Object`
InstanceofObject(v) == v.tag = "object"

\* `v == null` (loose equality: null and undefined)
LooselyNull(v) == v.tag \in {"null", "undefined"}

\* a parameter default `p = d`: applies when the argument is undefined
DefaultArg(v, d) == IF v = Undef THEN d ELSE v

Digit(d) == <<"0", "1", "2", "3", "4", "5", "6", "7", "8", "9">>[d + 1]

RECURSIVE NatToChars(_)
NatToChars(i) == IF i < 10 THEN <<Digit(i)>>
                 ELSE NatToChars(i \div 10) \o <<Digit(i % 10)>>

\* Number.prototype.toString for an integer
NumToChars(i) == IF i < 0 THEN <<"-">> \o NatToChars(-i) ELSE NatToChars(i)

\* v.toString (): the text, or the TypeError of a call on null
ToStringThrows(v) == v.tag = "null"
ToStringChars(v) ==
    CASE v.tag = "string" -> v.s
      [] v.tag = "number" -> NumToChars(v.n)
      [] v.tag = "boolean" -> IF v.n = 1 THEN <<"t", "r", "u", "e">>
                              ELSE <<"f", "a", "l", "s", "e">>
      [] OTHER -> <<"[", "o", "b", "j", "e", "c", "t", " ",
                    "O", "b", "j", "e", "c", "t", "]">>

-----------------------------------------------------------------------------
\* The registered entity type and the Plug it is registered with

Models == {"Model"}
DbOf(M) == "plug"

NoError == "none"

-----------------------------------------------------------------------------
\* Inputs of the calls

Chars_asc == <<"a", "s", "c">>
Chars_ascending == <<"a", "s", "c", "e", "n", "d", "i", "n", "g">>
Chars_desc == <<"d", "e", "s", "c">>
Chars_descending == <<"d", "e", "s", "c", "e", "n", "d", "i", "n", "g">>

Keys == {Str(<<"a">>)}
Mappings == {Obj(<<"{", "a", ":", "1", "}">>)}
EmptyMapping == Obj(<<"{", "}">>)
Amounts == {Num(2)}
Bounds == {Num(100)}
Values == {Undef, Null, Num(1)}
Directions ==
    { Undef, Null, Num(1), Num(-1),
      Str(Chars_asc), Str(Chars_ascending), Str(Chars_desc), Str(Chars_descending),
      Str(<<"A", "S", "C">>), Str(<<"u", "p">>) }

-----------------------------------------------------------------------------
\* DbQuery: the chain methods, as functions of this.pts (p) and the arguments.
\* The result is the error thrown (NoError when the call returns), the
\* list this.pts is left with, and whether the call returned `this`.

\* a push that adds at the front (unshift)
push_Front(p, node) == <<node>> \o p

\* Array.prototype.push
push(p, node) == Append(p, node)

Returned(p) == [err |-> NoError, pts |-> p, self |-> TRUE]
Thrown(e, p) == [err |-> e, pts |-> p, self |-> FALSE]

DbQuery_limit(p, amt) ==
    Returned(push(p, [type |-> "limit", limitAmount |-> amt]))

DbQuery_skip(p, amt) ==
    Returned(push(p, [type |-> "skip", skipAmount |-> amt]))

\* a default of "asc"
SortDefaultDirection_Asc == Str(Chars_asc)

\* the default of the parameter directionStr
SortDefaultDirection == Str(Chars_desc)

\* the two branches with their values of `desc` exchanged
ParseDirection_Swapped(chars) ==
    IF chars = <<"1">> \/ chars = Chars_asc \/ chars = Chars_ascending
    THEN Bool(TRUE)
    ELSE IF chars = <<"-", "1">> \/ chars = Chars_desc \/ chars = Chars_descending
    THEN Bool(FALSE)
    ELSE Null

\* the if / else if / else of sort over the text of the direction:
\* the value of `desc`, null when the text is unparseable
ParseDirection(chars) ==
    IF chars = <<"1">> \/ chars = Chars_asc \/ chars = Chars_ascending
    THEN Bool(FALSE)
    ELSE IF chars = <<"-", "1">> \/ chars = Chars_desc \/ chars = Chars_descending
    THEN Bool(TRUE)
    ELSE Null

\* a sort that pushes its node before it validates the direction
DbQuery_sort_PushFirst(p, key, directionArg) ==
    LET directionStr == DefaultArg(directionArg, SortDefaultDirection) IN
    IF ToStringThrows(directionStr) THEN Thrown("TypeError", p)
    ELSE LET desc == ParseDirection(ToStringChars(directionStr))
             pushed == push(p, [type |-> "sort", sortKey |-> key, desc |-> desc]) IN
         IF desc = Null THEN Thrown("Error: Invalid sort value", pushed)
         ELSE Returned(pushed)

DbQuery_sort(p, key, directionArg) ==
    LET directionStr == DefaultArg(directionArg, SortDefaultDirection) IN
    IF ToStringThrows(directionStr) THEN Thrown("TypeError", p)
    ELSE LET desc == ParseDirection(ToStringChars(directionStr)) IN
         IF desc = Null THEN Thrown("Error: Invalid sort value", p)
         ELSE Returned(push(p, [type |-> "sort", sortKey |-> key, desc |-> desc]))

\* a where that tests only the value, not the kind of the key
DbQuery_where_NoKindTest(p, key, valueArg) ==
    LET value == DefaultArg(valueArg, Null) IN
    IF LooselyNull(value)
    THEN Returned(push(p, [type |-> "filter", filter |-> key]))
    ELSE Returned(push(p, [type |-> "whereEquals",
                           match |-> [prop |-> key, value |-> value]]))

DbQuery_where(p, key, valueArg) ==
    LET value == DefaultArg(valueArg, Null) IN
    IF InstanceofObject(key) /\ LooselyNull(value)
    THEN Returned(push(p, [type |-> "filter", filter |-> key]))
    ELSE Returned(push(p, [type |-> "whereEquals",
                           match |-> [prop |-> key, value |-> value]]))

DbQuery_gt(p, key, min) ==
    Returned(push(p, [type |-> "gt", min |-> min, key |-> key]))

DbQuery_lt(p, key, max) ==
    Returned(push(p, [type |-> "lt", max |-> max, key |-> key]))

DbQuery_gte(p, key, min) ==
    Returned(push(p, [type |-> "gte", min |-> min, key |-> key]))

\* the parameter is named min and the node reads `max`, which is declared
\* nowhere: evaluating the argument of push throws before push is called
DbQuery_lte(p, key, min) == Thrown("ReferenceError", p)

\* DbQuery defines no sum: calling the missing property throws
DbQuery_sum(p, key) == Thrown("TypeError", p)

ChainOps == {"limit", "skip", "sort", "where", "gt", "lt", "gte", "lte"}
TerminalOps == {"find", "findOne", "count", "remove"}

\* a count that calls the method of find
PlugFn_CountFinds(op) ==
    CASE op = "find" -> "findModels"
      [] op = "findOne" -> "findModel"
      [] op = "count" -> "findModels"
      [] op = "remove" -> "removeModels"

\* the method of the Plug each terminal action calls
PlugFn(op) ==
    CASE op = "find" -> "findModels"
      [] op = "findOne" -> "findModel"
      [] op = "count" -> "countModels"
      [] op = "remove" -> "removeModels"

\* a call that hands the Plug a builder emptied of its nodes
PlugCall_Emptied(fn, M, db, q, p, outcome) ==
    [fn |-> fn, db |-> db, Model |-> M, query |-> q, pts |-> <<>>, outcome |-> outcome]

\* the call DbQuery makes to the Plug: this._db.fn (this._Model, this)
PlugCall(fn, M, db, q, p, outcome) ==
    [fn |-> fn, db |-> db, Model |-> M, query |-> q, pts |-> p, outcome |-> outcome]

PlugOutcomes == {"ok", "BackendError"}

\* an await wrapped in a try / catch that drops the error
Propagate_Swallowed(outcome) == NoError

\* an awaited Plug call that rejects makes the async method reject with the same error
Propagate(outcome) == IF outcome = "ok" THEN NoError ELSE outcome

-----------------------------------------------------------------------------
\* DbModel: the data of an entity. A mapping is a function from the field
\* paths to values, undefined where the mapping has no such field.

DataFields == Keys
EmptyData == [f \in DataFields |-> Undef]

NaN == [tag |-> "number", n |-> 0, s |-> <<"N", "a", "N">>]
Arr(names) == [tag |-> "array", n |-> 0, s |-> names]

\* the object the application holds, and the object constructed for entity e
AppObj == 0
OwnObj(e) == e
\* the object get () builds for the copy it returns
CopyObj == MaxEntities + 1
Objects == 0..(MaxEntities + 1)

\* a reference to the mapping the application holds, as an argument
AppMapping == Obj(<<"m">>)

\* the content of { a: 1 }
LiteralData == [f \in DataFields |-> IF f = Str(<<"a">>) THEN Num(1) ELSE Undef]

\* DotProp.get / set / delete on a path without dots
DotProp_get(d, key) == IF key \in DOMAIN d THEN d[key] ELSE Undef
DotProp_set(d, key, value) == IF key \in DOMAIN d THEN [d EXCEPT ![key] = value] ELSE d
DotProp_delete(d, key) == IF key \in DOMAIN d THEN [d EXCEPT ![key] = Undef] ELSE d

\* Object.assign (target, source): the fields of source over those of target
ObjectAssign(target, source) ==
    [f \in DataFields |-> IF source[f] # Undef THEN source[f] ELSE target[f]]

\* ToNumber and the operators + and - on what the fields hold
IsNaN(v) == v = NaN \/ v.tag = "undefined"
NumberOf(v) == IF v.tag = "number" THEN v.n ELSE 0
Plus(x, y) == IF IsNaN(x) \/ IsNaN(y) THEN NaN ELSE Num(NumberOf(x) + NumberOf(y))
Minus(x, y) == IF IsNaN(x) \/ IsNaN(y) THEN NaN ELSE Num(NumberOf(x) - NumberOf(y))

\* what a call returns: a mapping, a value or nothing
RetNone == [kind |-> "none"]
RetMap(d) == [kind |-> "mapping", map |-> d]
RetVal(v) == [kind |-> "value", val |-> v]

\* constructor (data = {}, id = null): this.__data = data. The result is the
\* object this.__data refers to and, for a new object, its content.
DbModel_constructor(e, dataArg) ==
    IF dataArg = Undef THEN [ref |-> OwnObj(e), data |-> EmptyData]
    ELSE IF dataArg = AppMapping THEN [ref |-> AppObj, data |-> heap[AppObj]]
    ELSE [ref |-> OwnObj(e), data |-> LiteralData]

\* get () that copies nothing into the object it returns
DbModel_get_Blank(d, id, keyArg) ==
    LET key == DefaultArg(keyArg, Str(<<>>)) IN
    IF Len(key.s) = 0 THEN RetMap(EmptyData)
    ELSE IF key = Str(<<"_", "i", "d">>) THEN RetVal(id)
    ELSE RetVal(DotProp_get(d, key))

\* get (key = '')
DbModel_get(d, id, keyArg) ==
    LET key == DefaultArg(keyArg, Str(<<>>)) IN
    IF Len(key.s) = 0 THEN RetMap(ObjectAssign(EmptyData, d))
    ELSE IF key = Str(<<"_", "i", "d">>) THEN RetVal(id)
    ELSE RetVal(DotProp_get(d, key))

\* set (key, value = null): the content of this.__data after the call;
\* source is the content of the mapping given as key
DbModel_set(d, key, valueArg, source) ==
    LET value == DefaultArg(valueArg, Null) IN
    IF InstanceofObject(key) /\ LooselyNull(value)
    THEN ObjectAssign(d, source)
    ELSE DotProp_set(d, key, value)

RECURSIVE DeleteAll(_, _)
DeleteAll(d, names) ==
    IF names = <<>> THEN d
    ELSE DeleteAll(DotProp_delete(d, Str(<<Head(names)>>)), Tail(names))

\* unset (key = null): the content after the call, and whether this.__data
\* was assigned a new object
DbModel_unset(d, keyArg) ==
    LET key == DefaultArg(keyArg, Null) IN
    IF key.tag = "array" THEN [data |-> DeleteAll(d, key.s), fresh |-> FALSE]
    ELSE IF LooselyNull(key) THEN [data |-> EmptyData, fresh |-> TRUE]
    ELSE [data |-> DotProp_delete(d, key), fresh |-> FALSE]

\* increment (key, amt = 1) and decrement (key, amt = 1)
DbModel_increment(d, key, amtArg) ==
    LET amt == DefaultArg(amtArg, Num(1))
        currValue == DotProp_get(d, key) IN
    DotProp_set(d, key, Plus(currValue, amt))

DbModel_decrement(d, key, amtArg) ==
    LET amt == DefaultArg(amtArg, Num(1))
        currValue == DotProp_get(d, key) IN
    DotProp_set(d, key, Minus(currValue, amt))

NoEntity == 0

\* f with the value v at k, which f may not have held yet
Put(f, k, v) == [x \in DOMAIN f \cup {k} |-> IF x = k THEN v ELSE f[x]]
NoRecord == [present |-> FALSE, data |-> EmptyData]

InitEntity ==
    /\ ne = 0
    /\ eRef = <<>>
    /\ eId = <<>>
    /\ heap = [o \in {AppObj} |-> LiteralData]
    /\ store = <<>>
    /\ nIds = 0
    /\ pend = <<>>
    /\ eHeld = <<>>
    /\ elast = [op |-> "init"]

-----------------------------------------------------------------------------
\* The Plug's queries, from its contract: findModels, findModel, countModels
\* and removeModels take the entity type and the builder, and read its list
\* of operations. A record is a mapping.

\* the mapping a literal denotes
MappingOf(obj) == IF obj = Obj(<<"{", "a", ":", "1", "}">>) THEN LiteralData ELSE EmptyData

\* the filtering predicates: all of them hold, wherever they stand in the list
Matches(rec, node) ==
    CASE node.type = "filter" ->
             \A f \in DataFields :
                 MappingOf(node.filter)[f] # Undef => rec[f] = MappingOf(node.filter)[f]
      [] node.type = "whereEquals" -> DotProp_get(rec, node.match.prop) = node.match.value
      [] node.type = "gt" ->
             DotProp_get(rec, node.key).tag = "number" /\ DotProp_get(rec, node.key).n > node.min.n
      [] node.type = "lt" ->
             DotProp_get(rec, node.key).tag = "number" /\ DotProp_get(rec, node.key).n < node.max.n
      [] node.type = "gte" ->
             DotProp_get(rec, node.key).tag = "number" /\ DotProp_get(rec, node.key).n >= node.min.n
      [] OTHER -> TRUE

MatchesAll(rec, p) == \A i \in DOMAIN p : Matches(rec, p[i])

RECURSIVE Filtered(_, _)
Filtered(t, p) ==
    IF t = <<>> THEN <<>>
    ELSE IF MatchesAll(Head(t), p) THEN <<Head(t)>> \o Filtered(Tail(t), p)
    ELSE Filtered(Tail(t), p)

\* the place of the last node of a type, 0 when the list has none
RECURSIVE LastOf(_, _)
LastOf(p, type) ==
    IF p = <<>> THEN 0
    ELSE IF p[Len(p)].type = type THEN Len(p)
    ELSE LastOf(SubSeq(p, 1, Len(p) - 1), type)

\* rec stands before other in the order of a sort node
Before(rec, other, key, desc) ==
    IF desc = Bool(TRUE)
    THEN NumberOf(DotProp_get(rec, key)) > NumberOf(DotProp_get(other, key))
    ELSE NumberOf(DotProp_get(rec, key)) < NumberOf(DotProp_get(other, key))

\* rec put into an ordered sequence, after the records it does not stand before
RECURSIVE Inserted(_, _, _, _)
Inserted(seq, rec, key, desc) ==
    IF seq = <<>> THEN <<rec>>
    ELSE IF Before(rec, Head(seq), key, desc) THEN <<rec>> \o seq
    ELSE <<Head(seq)>> \o Inserted(Tail(seq), rec, key, desc)

RECURSIVE SortedBy(_, _, _)
SortedBy(seq, key, desc) ==
    IF seq = <<>> THEN <<>>
    ELSE Inserted(SortedBy(SubSeq(seq, 1, Len(seq) - 1), key, desc), seq[Len(seq)], key, desc)

\* the last sort node gives the order
Ordered(seq, p) ==
    LET i == LastOf(p, "sort") IN
    IF i = 0 THEN seq ELSE SortedBy(seq, p[i].sortKey, p[i].desc)

\* skip removes a prefix of the ordered records
Skipped(seq, p) ==
    LET i == LastOf(p, "skip") IN
    IF i = 0 THEN seq
    ELSE SubSeq(seq, p[i].skipAmount.n + 1, Len(seq))

\* limit caps what remains
Limited(seq, p) ==
    LET i == LastOf(p, "limit") IN
    IF i = 0 \/ p[i].limitAmount.n >= Len(seq) THEN seq
    ELSE SubSeq(seq, 1, p[i].limitAmount.n)

\* a Plug that applies limit before skip
Plug_findModels_LimitFirst(t, p) == Skipped(Limited(Ordered(Filtered(t, p), p), p), p)

Plug_findModels(t, p) ==
    IF t = <<>> THEN <<>> ELSE Limited(Skipped(Ordered(Filtered(t, p), p), p), p)

Plug_findModel(t, p) ==
    LET found == Plug_findModels(t, p) IN
    IF found = <<>> THEN <<>> ELSE <<found[1]>>

\* count is taken after the filters; limit and skip are not considered
Plug_countModels(t, p) == IF t = <<>> THEN 0 ELSE Len(Filtered(t, p))

RECURSIVE Plug_removeModels(_, _)
Plug_removeModels(t, p) ==
    IF t = <<>> THEN <<>>
    ELSE IF MatchesAll(Head(t), p) THEN Plug_removeModels(Tail(t), p)
    ELSE <<Head(t)>> \o Plug_removeModels(Tail(t), p)

\* what a terminal action is answered
NoResult == [kind |-> "none"]

PlugAnswer(fn, t, p, outcome) ==
    IF outcome # "ok" THEN NoResult
    ELSE CASE fn = "findModels" -> [kind |-> "list", list |-> Plug_findModels(t, p), n |-> 0]
           [] fn = "findModel" -> [kind |-> "one", list |-> Plug_findModel(t, p), n |-> 0]
           [] fn = "countModels" -> [kind |-> "count", list |-> <<>>, n |-> Plug_countModels(t, p)]
           [] OTHER -> NoResult

\* the Plug answers the calls a builder call made, if it made one
Answered(calls) ==
    IF calls = <<>>
    THEN result' = NoResult /\ table' = table
    ELSE LET c == calls[1] IN
         /\ result' = PlugAnswer(c.fn, table, c.pts, c.outcome)
         /\ table' = IF c.fn = "removeModels" /\ c.outcome = "ok"
                     THEN Plug_removeModels(table, c.pts)
                     ELSE table

-----------------------------------------------------------------------------
\* The state machine

NoQuery == 0

InitQuery ==
    /\ nq = 0
    /\ qModel = [q \in 1..MaxQueries |-> "none"]
    /\ qDb = [q \in 1..MaxQueries |-> "none"]
    /\ pts = [q \in 1..MaxQueries |-> <<>>]
    /\ last = [op |-> "init", static |-> FALSE, q |-> NoQuery, args |-> <<>>,
               err |-> NoError, ret |-> NoQuery, pre |-> <<>>, plug |-> <<>>]

\* no record stored, no terminal action made
InitTable ==
    /\ table = <<>>
    /\ result = NoResult

Init == InitQuery /\ InitEntity /\ InitTable

Queries == 1..nq

RECURSIVE SumLen(_, _)
SumLen(f, n) == IF n = 0 THEN 0 ELSE Len(f[n]) + SumLen(f, n - 1)

\* the nodes pushed so far
TotalNodes == SumLen(pts, MaxQueries)

\* a chain method may still push a node
HasRoom == TotalNodes < MaxNodes

\* a chain method over a list that all builders share
Chain_SharedPts(q, op, args, res) ==
    /\ q \in Queries
    /\ HasRoom
    /\ pts' = [x \in 1..MaxQueries |-> IF x \in Queries THEN res.pts ELSE pts[x]]
    /\ last' = [op |-> op, static |-> FALSE, q |-> q, args |-> args,
                err |-> res.err, ret |-> IF res.self THEN q ELSE NoQuery,
                pre |-> pts[q], plug |-> <<>>]
    /\ UNCHANGED <<nq, qModel, qDb>>
    /\ UNCHANGED <<evars, pvars>>

\* a chain method called on builder q, with the result res of its body
Chain(q, op, args, res) ==
    /\ q \in Queries
    /\ HasRoom
    /\ pts' = [pts EXCEPT ![q] = res.pts]
    /\ last' = [op |-> op, static |-> FALSE, q |-> q, args |-> args,
                err |-> res.err, ret |-> IF res.self THEN q ELSE NoQuery,
                pre |-> pts[q], plug |-> <<>>]
    /\ UNCHANGED <<nq, qModel, qDb>>
    /\ UNCHANGED <<evars, pvars>>

limit(q, amt) == Chain(q, "limit", <<amt>>, DbQuery_limit(pts[q], amt))
skip(q, amt) == Chain(q, "skip", <<amt>>, DbQuery_skip(pts[q], amt))
sort(q, key, dir) == Chain(q, "sort", <<key, dir>>, DbQuery_sort(pts[q], key, dir))
where(q, key, value) == Chain(q, "where", <<key, value>>, DbQuery_where(pts[q], key, value))
gt(q, key, min) == Chain(q, "gt", <<key, min>>, DbQuery_gt(pts[q], key, min))
lt(q, key, max) == Chain(q, "lt", <<key, max>>, DbQuery_lt(pts[q], key, max))
gte(q, key, min) == Chain(q, "gte", <<key, min>>, DbQuery_gte(pts[q], key, min))
lte(q, key, max) == Chain(q, "lte", <<key, max>>, DbQuery_lte(pts[q], key, max))

\* query.sum (key)
sum(q, key) ==
    /\ q \in Queries
    /\ LET res == DbQuery_sum(pts[q], key) IN
       /\ pts' = [pts EXCEPT ![q] = res.pts]
       /\ last' = [op |-> "sum", static |-> FALSE, q |-> q, args |-> <<key>>,
                   err |-> res.err, ret |-> NoQuery, pre |-> pts[q], plug |-> <<>>]
    /\ UNCHANGED <<nq, qModel, qDb>>
    /\ UNCHANGED <<evars, pvars>>

\* find, findOne, count, remove: one awaited call of the Plug
TerminalCall(q, op, outcome) ==
    /\ q \in Queries
    /\ last' = [op |-> op, static |-> FALSE, q |-> q, args |-> <<>>,
                err |-> Propagate(outcome), ret |-> NoQuery, pre |-> pts[q],
                plug |-> <<PlugCall(PlugFn(op), qModel[q], qDb[q], q, pts[q], outcome)>>]
    /\ UNCHANGED <<nq, qModel, qDb, pts>>
    /\ UNCHANGED evars

\* the terminal actions, what the Plug answers left aside
Terminal(q, op, outcome) == TerminalCall(q, op, outcome) /\ UNCHANGED pvars

find(q, outcome) == Terminal(q, "find", outcome)
findOne(q, outcome) == Terminal(q, "findOne", outcome)
count(q, outcome) == Terminal(q, "count", outcome)
remove(q, outcome) == Terminal(q, "remove", outcome)

-----------------------------------------------------------------------------
\* DbModel: the static entry points. Each builds a DbQuery with __query and
\* calls one method of it.

\* this.pts of a DbQuery just constructed
NewPts == <<>>

\* new DbQuery (this, this.__db), then what the entry point does with it:
\* res is the result of the chain method, plug the Plug calls made
Static(M, op, args, res, err, plug) ==
    /\ nq < MaxQueries
    /\ TotalNodes + Len(res.pts) <= MaxNodes
    /\ nq' = nq + 1
    /\ qModel' = [qModel EXCEPT ![nq + 1] = M]
    /\ qDb' = [qDb EXCEPT ![nq + 1] = DbOf(M)]
    /\ pts' = [pts EXCEPT ![nq + 1] = res.pts]
    /\ last' = [op |-> op, static |-> TRUE, q |-> nq + 1, args |-> args,
                err |-> err, ret |-> IF op \in ChainOps /\ res.self THEN nq + 1 ELSE NoQuery,
                pre |-> NewPts, plug |-> plug]
    /\ UNCHANGED <<evars, pvars>>

\* Model.__query ()
DbModel_query(M) ==
    Static(M, "__query", <<>>, Returned(NewPts), NoError, <<>>)

StaticChain(M, op, args, res) == Static(M, op, args, res, res.err, <<>>)

DbModel_limit(M, amt) == StaticChain(M, "limit", <<amt>>, DbQuery_limit(NewPts, amt))
DbModel_skip(M, amt) == StaticChain(M, "skip", <<amt>>, DbQuery_skip(NewPts, amt))
DbModel_sort(M, key, direction) ==
    StaticChain(M, "sort", <<key, direction>>, DbQuery_sort(NewPts, key, direction))
DbModel_where(M, key, value) ==
    StaticChain(M, "where", <<key, value>>, DbQuery_where(NewPts, key, value))
DbModel_gt(M, key, min) == StaticChain(M, "gt", <<key, min>>, DbQuery_gt(NewPts, key, min))
DbModel_lt(M, key, max) == StaticChain(M, "lt", <<key, max>>, DbQuery_lt(NewPts, key, max))
DbModel_gte(M, key, min) == StaticChain(M, "gte", <<key, min>>, DbQuery_gte(NewPts, key, min))
\* Model.lte calls gt of the builder
DbModel_lte(M, key, max) == StaticChain(M, "lte", <<key, max>>, DbQuery_gt(NewPts, key, max))

\* this.__query ().where (filter), with the default {} of the parameter filter
WhereFilter(filter) == DbQuery_where(NewPts, DefaultArg(filter, EmptyMapping), Undef)

\* Model.find / findOne / count / remove (filter)
StaticTerminal(M, op, filter, outcome) ==
    LET res == WhereFilter(filter) IN
    Static(M, op, <<filter>>, res, Propagate(outcome),
           <<PlugCall(PlugFn(op), M, DbOf(M), nq + 1, res.pts, outcome)>>)

DbModel_find(M, filter, outcome) == StaticTerminal(M, "find", filter, outcome)
DbModel_findOne(M, filter, outcome) == StaticTerminal(M, "findOne", filter, outcome)
DbModel_count(M, filter, outcome) == StaticTerminal(M, "count", filter, outcome)
DbModel_remove(M, filter, outcome) == StaticTerminal(M, "remove", filter, outcome)

\* Model.sum (key, filter): .where (filter).sum (), sum called without the key
DbModel_sum(M, key, filter) ==
    LET res == WhereFilter(filter)
        s == DbQuery_sum(res.pts, Undef) IN
    Static(M, "sum", <<key, filter>>, s, s.err, <<>>)

Filters == {Undef} \cup Mappings

-----------------------------------------------------------------------------

Next ==
    \/ \E M \in Models : DbModel_query(M)
    \/ HasRoom /\ \E q \in Queries, amt \in Amounts : limit(q, amt)
    \/ HasRoom /\ \E q \in Queries, amt \in Amounts : skip(q, amt)
    \/ HasRoom /\ \E q \in Queries, key \in Keys, dir \in Directions : sort(q, key, dir)
    \/ HasRoom /\ \E q \in Queries, key \in Keys \cup Mappings, value \in Values : where(q, key, value)
    \/ HasRoom /\ \E q \in Queries, key \in Keys, b \in Bounds : gt(q, key, b)
    \/ HasRoom /\ \E q \in Queries, key \in Keys, b \in Bounds : lt(q, key, b)
    \/ HasRoom /\ \E q \in Queries, key \in Keys, b \in Bounds : gte(q, key, b)
    \/ HasRoom /\ \E q \in Queries, key \in Keys, b \in Bounds : lte(q, key, b)
    \/ \E q \in Queries, key \in Keys : sum(q, key)
    \/ \E q \in Queries, o \in PlugOutcomes : find(q, o)
    \/ \E q \in Queries, o \in PlugOutcomes : findOne(q, o)
    \/ \E q \in Queries, o \in PlugOutcomes : count(q, o)
    \/ \E q \in Queries, o \in PlugOutcomes : remove(q, o)
    \/ \E M \in Models, amt \in Amounts : DbModel_limit(M, amt)
    \/ \E M \in Models, amt \in Amounts : DbModel_skip(M, amt)
    \/ \E M \in Models, key \in Keys, dir \in Directions : DbModel_sort(M, key, dir)
    \/ \E M \in Models, key \in Keys \cup Mappings, value \in Values : DbModel_where(M, key, value)
    \/ \E M \in Models, key \in Keys, b \in Bounds : DbModel_gt(M, key, b)
    \/ \E M \in Models, key \in Keys, b \in Bounds : DbModel_lt(M, key, b)
    \/ \E M \in Models, key \in Keys, b \in Bounds : DbModel_gte(M, key, b)
    \/ \E M \in Models, key \in Keys, b \in Bounds : DbModel_lte(M, key, b)
    \/ \E M \in Models, f \in Filters, o \in PlugOutcomes : DbModel_find(M, f, o)
    \/ \E M \in Models, f \in Filters, o \in PlugOutcomes : DbModel_findOne(M, f, o)
    \/ \E M \in Models, f \in Filters, o \in PlugOutcomes : DbModel_count(M, f, o)
    \/ \E M \in Models, f \in Filters, o \in PlugOutcomes : DbModel_remove(M, f, o)
    \/ \E M \in Models, key \in Keys, f \in Filters : DbModel_sum(M, key, f)

Spec == Init /\ [][Next]_vars

-----------------------------------------------------------------------------
\* DbModel instances: construction and the calls that work on this.__data

Entities == 1..ne
Data(e) == heap[eRef[e]]

\* the values the fields are kept within
InRange(d) ==
    \A f \in DataFields : d[f].tag = "number" /\ d[f] # NaN => d[f].n \in 0..MaxVal

ConstructorArgs == {Undef, Obj(<<"{", "a", ":", "1", "}">>), AppMapping}
SetKeys == Keys \cup {AppMapping}
SetValues == {Undef, Num(2)}
UnsetKeys == {Undef, Str(<<"a">>), Arr(<<"a">>)}
AmountArgs == {Undef, Num(2)}

Done(op, e, err, ret) ==
    elast' = [op |-> op, e |-> e, phase |-> "sync", err |-> err, ret |-> ret,
              got |-> Undef]

\* new Model (data)
Entity_new(dataArg) ==
    /\ ne < MaxEntities
    /\ LET e == ne + 1
           made == DbModel_constructor(e, dataArg) IN
       /\ ne' = e
       /\ eRef' = Append(eRef, made.ref)
       /\ heap' = IF made.ref = OwnObj(e) THEN Put(heap, e, made.data) ELSE heap
       /\ eId' = Append(eId, Null)
       /\ Done("new", e, NoError, RetNone)
    /\ UNCHANGED <<store, nIds, pend, eHeld>>
    /\ UNCHANGED <<qvars, pvars>>

\* entity.get (key)
Entity_get(e, keyArg) ==
    /\ e \in Entities
    /\ LET ret == DbModel_get(Data(e), eId[e], keyArg) IN
       /\ heap' = IF ret.kind = "mapping" THEN Put(heap, CopyObj, ret.map) ELSE heap
       /\ Done("get", e, NoError, ret)
    /\ UNCHANGED <<ne, eRef, eId, store, nIds, pend, eHeld>>
    /\ UNCHANGED <<qvars, pvars>>

\* a call that writes through this.__data
Mutate(op, e, data) ==
    /\ e \in Entities
    /\ InRange(data)
    /\ heap' = [heap EXCEPT ![eRef[e]] = data]
    /\ Done(op, e, NoError, RetNone)
    /\ UNCHANGED <<ne, eRef, eId, store, nIds, pend, eHeld>>
    /\ UNCHANGED <<qvars, pvars>>

\* entity.set (key, value)
Entity_set(e, key, valueArg) ==
    Mutate("set", e, DbModel_set(Data(e), key, valueArg, heap[AppObj]))

\* entity.unset (key)
Entity_unset(e, keyArg) ==
    /\ e \in Entities
    /\ LET res == DbModel_unset(Data(e), keyArg)
           obj == IF res.fresh THEN OwnObj(e) ELSE eRef[e] IN
       /\ eRef' = [eRef EXCEPT ![e] = obj]
       /\ heap' = Put(heap, obj, res.data)
    /\ Done("unset", e, NoError, RetNone)
    /\ UNCHANGED <<ne, eId, store, nIds, pend, eHeld>>
    /\ UNCHANGED <<qvars, pvars>>

\* entity.increment (key, amt) and entity.decrement (key, amt)
Entity_increment(e, key, amtArg) ==
    Mutate("increment", e, DbModel_increment(Data(e), key, amtArg))

Entity_decrement(e, key, amtArg) ==
    Mutate("decrement", e, DbModel_decrement(Data(e), key, amtArg))

\* the application assigns a field of a mapping it holds: the one it passed
\* to constructors, or the one the latest get () returned
AppHolds ==
    {AppObj} \cup (IF elast.op = "get" /\ elast.ret.kind = "mapping" THEN {CopyObj} ELSE {})

App_assign(o, key, value) ==
    /\ o \in AppHolds
    /\ heap' = [heap EXCEPT ![o] = DotProp_set(heap[o], key, value)]
    /\ Done("assign", NoEntity, NoError, RetNone)
    /\ UNCHANGED <<ne, eRef, eId, store, nIds, pend, eHeld>>
    /\ UNCHANGED <<qvars, pvars>>

NextOwn ==
    \/ \E a \in ConstructorArgs : Entity_new(a)
    \/ \E e \in Entities, k \in {Undef} \cup Keys : Entity_get(e, k)
    \/ \E e \in Entities, k \in SetKeys, v \in SetValues : Entity_set(e, k, v)
    \/ \E e \in Entities, k \in UnsetKeys : Entity_unset(e, k)
    \/ \E e \in Entities, k \in Keys, a \in AmountArgs : Entity_increment(e, k, a)
    \/ \E e \in Entities, k \in Keys, a \in AmountArgs : Entity_decrement(e, k, a)
    \/ \E o \in Objects, k \in Keys, v \in {Num(0), Num(2)} : App_assign(o, k, v)

SpecOwn == Init /\ [][NextOwn]_vars

-----------------------------------------------------------------------------
\* DbModel instances: save, remove, refresh and findById. Each is an async
\* function: it runs up to its await, where the call of the Plug is in
\* flight, and resumes when the Plug settles.

\* a call of the Plug in flight: the function, the awaiting entity, the
\* identity handed over and the data of the entity handed over
PlugCallOf(fn, e, idArg, data) == [fn |-> fn, e |-> e, idArg |-> idArg, data |-> data]

\* save (): await db.save (this, this.__id)
DbModel_instance_save(e, id, data) == <<PlugCallOf("save", e, id, data)>>

\* save () after the await that never assigns the identity
DbModel_instance_save_resume_Forget(id, got) == id

\* save () after the await that assigns the identity only to an entity without one
DbModel_instance_save_resume_FirstWins(id, got) ==
    IF ~LooselyNull(got) /\ LooselyNull(id) THEN got ELSE id

\* save () after the await: if (id != null) this.__id = id
DbModel_instance_save_resume(id, got) == IF ~LooselyNull(got) THEN got ELSE id

\* remove () that hands the Plug this.__id and leaves it set
DbModel_instance_remove_Keep(e, id) ==
    IF LooselyNull(id)
    THEN [err |-> "Error", id |-> id, calls |-> <<>>]
    ELSE [err |-> NoError, id |-> id, calls |-> <<PlugCallOf("removeById", e, id, EmptyData)>>]

\* remove () that does not look at this.__id first
DbModel_instance_remove_NoGuard(e, id) ==
    [err |-> NoError, id |-> Null, calls |-> <<PlugCallOf("removeById", e, Null, EmptyData)>>]

\* remove (): throws when this.__id == null; else this.__id = null and then
\* await db.removeById (this.constructor, this.__id)
DbModel_instance_remove(e, id) ==
    IF LooselyNull(id)
    THEN [err |-> "Error", id |-> id, calls |-> <<>>]
    ELSE LET idNow == Null IN
         [err |-> NoError, id |-> idNow,
          calls |-> <<PlugCallOf("removeById", e, idNow, EmptyData)>>]

\* refresh (): throws when this.__id == null; else
\* await db.findDataById (this.constructor, this.__id)
DbModel_instance_refresh(e, id) ==
    IF LooselyNull(id)
    THEN [err |-> "Error", calls |-> <<>>]
    ELSE [err |-> NoError, calls |-> <<PlugCallOf("findDataById", e, id, EmptyData)>>]

\* refresh () after the await that keeps the data it had
DbModel_instance_refresh_resume_Keep(data, got) == data

\* refresh () after the await: this.__data = <what findDataById gave>
DbModel_instance_refresh_resume(data, got) == got

\* static findById (id): await this.__db.findById (this, id)
DbModel_findById(id) == <<PlugCallOf("findById", NoEntity, id, EmptyData)>>

\* The Plug, from its contract. A record is kept at each identity issued.
IsStored(st, id) == id.tag = "number" /\ id.n \in DOMAIN st /\ st[id.n].present

\* save (entity, optionalExistingId) -> identity: a new identity when the
\* given one is null, else the record at that identity is overwritten
Plug_save(st, n, idArg, data) ==
    LET id == IF LooselyNull(idArg) THEN Num(n + 1) ELSE idArg IN
    [store |-> Put(st, id.n, [present |-> TRUE, data |-> data]),
     nIds |-> IF LooselyNull(idArg) THEN n + 1 ELSE n,
     got |-> id]

\* removeById (entityType, id)
Plug_removeById(st, idArg) ==
    IF IsStored(st, idArg) THEN [st EXCEPT ![idArg.n] = NoRecord] ELSE st

\* findDataById (entityType, id) -> raw-data-or-NotFound
Plug_findDataById(st, idArg) ==
    IF IsStored(st, idArg)
    THEN [err |-> NoError, data |-> st[idArg.n].data]
    ELSE [err |-> "NotFound", data |-> EmptyData]

\* findById (entityType, id) -> entity-or-null
Plug_findById(st, idArg) ==
    IF IsStored(st, idArg)
    THEN [found |-> TRUE, data |-> st[idArg.n].data, id |-> idArg]
    ELSE [found |-> FALSE, data |-> EmptyData, id |-> Null]

\* the application awaits every call: it makes no call while one is in flight
Awaited == pend = <<>>

Without(seq, i) == [j \in 1..(Len(seq) - 1) |-> IF j < i THEN seq[j] ELSE seq[j + 1]]

Step(op, e, phase, err, got) ==
    elast' = [op |-> op, e |-> e, phase |-> phase, err |-> err, ret |-> RetNone,
              got |-> got]

IdArgs == {Num(i) : i \in 1..MaxIds}

\* entity.save (), up to the await
Entity_save(e) ==
    /\ e \in Entities
    /\ pend' = pend \o DbModel_instance_save(e, eId[e], Data(e))
    /\ Step("save", e, "call", NoError, Undef)
    /\ UNCHANGED <<ne, eRef, eId, heap, store, nIds, eHeld>>
    /\ UNCHANGED <<qvars, pvars>>

\* the Plug settles a save, and save () resumes
Resume_save(i, outcome) ==
    /\ i \in DOMAIN pend
    /\ pend[i].fn = "save"
    /\ pend' = Without(pend, i)
    /\ LET c == pend[i]
           e == c.e IN
       IF outcome = "ok"
       THEN /\ LooselyNull(c.idArg) => nIds < MaxIds
            /\ LET done == Plug_save(store, nIds, c.idArg, c.data) IN
               /\ store' = done.store
               /\ nIds' = done.nIds
               /\ eHeld' = Put(eHeld, done.got.n, c.data)
               /\ eId' = [eId EXCEPT ![e] = DbModel_instance_save_resume(eId[e], done.got)]
               /\ Step("save", e, "settle", NoError, done.got)
       ELSE /\ Step("save", e, "settle", Propagate(outcome), Undef)
            /\ UNCHANGED <<store, nIds, eHeld, eId>>
    /\ UNCHANGED <<ne, eRef, heap>>
    /\ UNCHANGED <<qvars, pvars>>

\* entity.remove (), up to the await or the throw
Entity_remove(e) ==
    /\ e \in Entities
    /\ LET r == DbModel_instance_remove(e, eId[e]) IN
       /\ eId' = [eId EXCEPT ![e] = r.id]
       /\ pend' = pend \o r.calls
       /\ Step("remove", e, IF r.err = NoError THEN "call" ELSE "thrown", r.err, Undef)
    /\ UNCHANGED <<ne, eRef, heap, store, nIds, eHeld>>
    /\ UNCHANGED <<qvars, pvars>>

\* the Plug settles a removeById, and remove () resumes
Resume_remove(i, outcome) ==
    /\ i \in DOMAIN pend
    /\ pend[i].fn = "removeById"
    /\ pend' = Without(pend, i)
    /\ store' = IF outcome = "ok" THEN Plug_removeById(store, pend[i].idArg) ELSE store
    /\ Step("remove", pend[i].e, "settle", Propagate(outcome), Undef)
    /\ UNCHANGED <<ne, eRef, eId, heap, nIds, eHeld>>
    /\ UNCHANGED <<qvars, pvars>>

\* entity.refresh (), up to the await or the throw
Entity_refresh(e) ==
    /\ e \in Entities
    /\ LET r == DbModel_instance_refresh(e, eId[e]) IN
       /\ pend' = pend \o r.calls
       /\ Step("refresh", e, IF r.err = NoError THEN "call" ELSE "thrown", r.err, Undef)
    /\ UNCHANGED <<ne, eRef, eId, heap, store, nIds, eHeld>>
    /\ UNCHANGED <<qvars, pvars>>

\* the Plug settles a findDataById, and refresh () resumes
Resume_refresh(i, outcome) ==
    /\ i \in DOMAIN pend
    /\ pend[i].fn = "findDataById"
    /\ pend' = Without(pend, i)
    /\ LET e == pend[i].e
           found == Plug_findDataById(store, pend[i].idArg)
           err == IF outcome = "ok" THEN found.err ELSE outcome IN
       IF err = NoError
       THEN /\ eRef' = [eRef EXCEPT ![e] = OwnObj(e)]
            /\ heap' = Put(heap, OwnObj(e), DbModel_instance_refresh_resume(Data(e), found.data))
            /\ Step("refresh", e, "settle", NoError, Undef)
       ELSE /\ Step("refresh", e, "settle", Propagate(err), Undef)
            /\ UNCHANGED <<eRef, heap>>
    /\ UNCHANGED <<ne, eId, store, nIds, eHeld>>
    /\ UNCHANGED <<qvars, pvars>>

\* Model.findById (id), up to the await
Entity_findById(id) ==
    /\ ne < MaxEntities
    /\ pend' = pend \o DbModel_findById(id)
    /\ Step("findById", NoEntity, "call", NoError, Undef)
    /\ UNCHANGED <<ne, eRef, eId, heap, store, nIds, eHeld>>
    /\ UNCHANGED <<qvars, pvars>>

\* the Plug settles a findById with an entity it made, or with null
Resume_findById(i, outcome) ==
    /\ i \in DOMAIN pend
    /\ pend[i].fn = "findById"
    /\ pend' = Without(pend, i)
    /\ LET r == Plug_findById(store, pend[i].idArg) IN
       IF outcome = "ok" /\ r.found
       THEN /\ ne < MaxEntities
            /\ ne' = ne + 1
            /\ eRef' = Append(eRef, OwnObj(ne + 1))
            /\ heap' = Put(heap, OwnObj(ne + 1), r.data)
            /\ eId' = Append(eId, r.id)
            /\ Step("findById", ne + 1, "settle", NoError, r.id)
       ELSE /\ Step("findById", NoEntity, "settle", Propagate(outcome), Null)
            /\ UNCHANGED <<ne, eRef, heap, eId>>
    /\ UNCHANGED <<store, nIds, eHeld>>
    /\ UNCHANGED <<qvars, pvars>>

NextEntity ==
    \/ Awaited /\ \E a \in {Undef, Obj(<<"{", "a", ":", "1", "}">>)} : Entity_new(a)
    \/ Awaited /\ \E e \in Entities, k \in Keys : Entity_set(e, k, Num(2))
    \/ Awaited /\ \E e \in Entities : Entity_save(e)
    \/ Awaited /\ \E e \in Entities : Entity_remove(e)
    \/ Awaited /\ \E e \in Entities : Entity_refresh(e)
    \/ Awaited /\ \E id \in IdArgs : Entity_findById(id)
    \/ \E i \in DOMAIN pend, o \in PlugOutcomes : Resume_save(i, o)
    \/ \E i \in DOMAIN pend, o \in PlugOutcomes : Resume_remove(i, o)
    \/ \E i \in DOMAIN pend, o \in PlugOutcomes : Resume_refresh(i, o)
    \/ \E i \in DOMAIN pend, o \in PlugOutcomes : Resume_findById(i, o)

SpecEntity == Init /\ [][NextEntity]_vars

-----------------------------------------------------------------------------
\* Queries against a table that holds records: one builder, on which each
\* chain method is called at most once, and the terminal actions find and count.

RecordValues == 1..3
Records == {[f \in DataFields |-> Num(i)] : i \in RecordValues}
Tables == UNION {[1..n -> Records] : n \in 0..MaxRecords}

SkipLimitAmounts == {Num(1), Num(2)}
SortDirections == {Str(Chars_asc), Str(Chars_desc)}

\* the state after Model.__query (), with some records stored
InitPlug ==
    /\ nq = 1
    /\ qModel = [q \in 1..MaxQueries |-> IF q = 1 THEN "Model" ELSE "none"]
    /\ qDb = [q \in 1..MaxQueries |-> IF q = 1 THEN DbOf("Model") ELSE "none"]
    /\ pts = [q \in 1..MaxQueries |-> NewPts]
    /\ last = [op |-> "__query", static |-> TRUE, q |-> 1, args |-> <<>>,
               err |-> NoError, ret |-> NoQuery, pre |-> NewPts, plug |-> <<>>]
    /\ InitEntity
    /\ table \in Tables
    /\ result = NoResult

\* the types of node a chain method pushes
NodeTypesOf(op) == IF op = "where" THEN {"filter", "whereEquals"} ELSE {op}

\* a chain method called on builder q, which holds no node of its type yet
ChainOnce(q, op, args, res) ==
    /\ q \in Queries
    /\ \A i \in DOMAIN pts[q] : pts[q][i].type \notin NodeTypesOf(op)
    /\ pts' = [pts EXCEPT ![q] = res.pts]
    /\ last' = [op |-> op, static |-> FALSE, q |-> q, args |-> args,
                err |-> res.err, ret |-> IF res.self THEN q ELSE NoQuery,
                pre |-> pts[q], plug |-> <<>>]
    /\ Answered(<<>>)
    /\ UNCHANGED <<nq, qModel, qDb>>
    /\ UNCHANGED evars

limitOnce(q, amt) == ChainOnce(q, "limit", <<amt>>, DbQuery_limit(pts[q], amt))
skipOnce(q, amt) == ChainOnce(q, "skip", <<amt>>, DbQuery_skip(pts[q], amt))
sortOnce(q, key, dir) == ChainOnce(q, "sort", <<key, dir>>, DbQuery_sort(pts[q], key, dir))
whereOnce(q, key, value) == ChainOnce(q, "where", <<key, value>>, DbQuery_where(pts[q], key, value))

\* the terminal actions with what the Plug answers
TerminalAnswered(q, op, outcome) == TerminalCall(q, op, outcome) /\ Answered(last'.plug)

findAnswered(q, outcome) == TerminalAnswered(q, "find", outcome)
countAnswered(q, outcome) == TerminalAnswered(q, "count", outcome)

NextPlug ==
    \/ \E q \in Queries, amt \in SkipLimitAmounts : limitOnce(q, amt)
    \/ \E q \in Queries, amt \in SkipLimitAmounts : skipOnce(q, amt)
    \/ \E q \in Queries, key \in Keys, dir \in SortDirections : sortOnce(q, key, dir)
    \/ \E q \in Queries, key \in Mappings \cup {EmptyMapping} : whereOnce(q, key, Undef)
    \/ \E q \in Queries, o \in PlugOutcomes : findAnswered(q, o)
    \/ \E q \in Queries, o \in PlugOutcomes : countAnswered(q, o)

SpecPlug == InitPlug /\ [][NextPlug]_vars

-----------------------------------------------------------------------------
\* Vocabulary of the properties

IsPrefix(a, b) == Len(a) <= Len(b) /\ SubSeq(b, 1, Len(a)) = a

LastNode(p) == p[Len(p)]

UpperCase == <<"A", "B", "C", "D", "E", "F", "G", "H", "I", "J", "K", "L", "M",
               "N", "O", "P", "Q", "R", "S", "T", "U", "V", "W", "X", "Y", "Z">>
LowerCase == <<"a", "b", "c", "d", "e", "f", "g", "h", "i", "j", "k", "l", "m",
               "n", "o", "p", "q", "r", "s", "t", "u", "v", "w", "x", "y", "z">>

LowerChar(c) ==
    IF \E i \in 1..26 : UpperCase[i] = c
    THEN LowerCase[CHOOSE i \in 1..26 : UpperCase[i] = c]
    ELSE c

\* the text in lower case
Lower(chars) == [i \in 1..Len(chars) |-> LowerChar(chars[i])]

\* the directions of sort, in any letter-casing
AnyCaseAscending(d) ==
    d = Num(1) \/ (d.tag = "string" /\ Lower(d.s) \in {Chars_asc, Chars_ascending})
AnyCaseDescending(d) ==
    d = Num(-1) \/ (d.tag = "string" /\ Lower(d.s) \in {Chars_desc, Chars_descending})

\* the directions of sort, spelled in lower case
ExactAscending(d) == d \in {Num(1), Str(Chars_asc), Str(Chars_ascending)}
ExactDescending(d) == d \in {Num(-1), Str(Chars_desc), Str(Chars_descending)}

\* the node types a chain method is documented to append
NodeTypes(op) == IF op = "where" THEN {"filter", "whereEquals"} ELSE {op}

SortNode(key, desc) == [type |-> "sort", sortKey |-> key, desc |-> Bool(desc)]

\* the call made last returned, and pushed exactly node to the list of its builder
Appended(node) ==
    /\ last.err = NoError
    /\ pts[last.q] = Append(last.pre, node)

\* the call made last threw, and left the list of its builder as it was
FailedClean ==
    /\ last.err # NoError
    /\ pts[last.q] = last.pre

-----------------------------------------------------------------------------
\* C1: every chain method of the builder (limit, skip, sort with a valid
\* direction, where, gt, lt, gte, lte), called on any builder, completes
\* without error, makes the operation list one node longer and returns the
\* builder it was called on.
C1_ChainCallAppendsOne ==
    (/\ last.op \in ChainOps
     /\ ~last.static
     /\ last.op = "sort" =>
            \/ last.args[2] = Undef
            \/ ExactAscending(last.args[2])
            \/ ExactDescending(last.args[2]))
    => /\ last.err = NoError
       /\ Len(pts[last.q]) = Len(last.pre) + 1
       /\ last.ret = last.q

\* C2: the operation list of a builder is append-only and order-preserving:
\* the list before a call is a prefix of the list after it, it grows only on
\* the builder that was called and by one node at its end, and the node a
\* chain method appends is of that method.
C2_AppendOnly ==
    [][\A q \in 1..MaxQueries :
          pts'[q] # pts[q] =>
              /\ IsPrefix(pts[q], pts'[q])
              /\ last'.q = q
              /\ Len(pts'[q]) = Len(pts[q]) + 1
              /\ (last'.op \in ChainOps /\ ~last'.static) =>
                     LastNode(pts'[q]).type \in NodeTypes(last'.op)]_vars

\* a chain call appended a node after a node of another type
C2_Witness ==
    /\ last.op \in ChainOps
    /\ ~last.static
    /\ last.err = NoError
    /\ Len(last.pre) >= 1
    /\ Len(pts[last.q]) = 2
    /\ pts[last.q][1].type # pts[last.q][2].type

\* C3: a terminal action (find, findOne, count, remove) hands the Plug the
\* bound entity type and the accumulated operation list and leaves the
\* operation list unchanged; a terminal action that follows another on the
\* same builder hands the Plug the same operation list.
C3_TerminalKeepsList ==
    [][(last'.op \in TerminalOps /\ ~last'.static) =>
          /\ pts' = pts
          /\ Len(last'.plug) = 1
          /\ last'.plug[1].fn = PlugFn(last'.op)
          /\ last'.plug[1].Model = qModel[last'.q]
          /\ last'.plug[1].db = qDb[last'.q]
          /\ last'.plug[1].pts = pts[last'.q]
          /\ (last.op \in TerminalOps /\ last.q = last'.q) =>
                 last'.plug[1].pts = last.plug[1].pts]_vars

\* a terminal action ran on a builder that holds two nodes
C3_Witness ==
    /\ last.op \in TerminalOps
    /\ ~last.static
    /\ Len(pts[last.q]) = 2
    /\ Len(last.plug) = 1
    /\ last.plug[1].pts = pts[last.q]

\* C4 as stated: sort accepts the direction in any letter-casing: any casing
\* of "asc" or "ascending", or 1, appends an ascending sort node; any casing
\* of "desc" or "descending", or -1, appends a descending one.
C4_AnyCaseAccepted ==
    last.op = "sort" =>
        /\ AnyCaseAscending(last.args[2]) => Appended(SortNode(last.args[1], FALSE))
        /\ AnyCaseDescending(last.args[2]) => Appended(SortNode(last.args[1], TRUE))

\* C4 amended: sort accepts the direction in lower case only: "asc",
\* "ascending" or 1 appends an ascending sort node, "desc", "descending" or
\* -1 a descending one; a direction spelled with an upper-case letter fails
\* with an error and appends nothing.
C4_LowerCaseAccepted ==
    last.op = "sort" =>
        /\ ExactAscending(last.args[2]) => Appended(SortNode(last.args[1], FALSE))
        /\ ExactDescending(last.args[2]) => Appended(SortNode(last.args[1], TRUE))
        /\ (last.args[2].tag = "string" /\ Lower(last.args[2].s) # last.args[2].s)
               => FailedClean

\* sort (key, "ascending") appended an ascending node
C4_Witness ==
    /\ last.op = "sort"
    /\ last.args[2] = Str(Chars_ascending)
    /\ last.err = NoError
    /\ LastNode(pts[last.q]) = SortNode(last.args[1], FALSE)

\* C5: sort (key) without a direction appends a sort node on key marked
\* descending; sort (key, "asc") appends one marked ascending.
C5_DefaultDescending ==
    last.op = "sort" =>
        /\ last.args[2] = Undef => Appended(SortNode(last.args[1], TRUE))
        /\ last.args[2] = Str(Chars_asc) => Appended(SortNode(last.args[1], FALSE))

\* sort (key) was called without a direction and returned
C5_Witness ==
    /\ last.op = "sort"
    /\ last.args[2] = Undef
    /\ last.err = NoError
    /\ LastNode(pts[last.q]).desc = Bool(TRUE)

\* C6: sort with a direction outside the accepted set fails at that call,
\* leaves the operation list as it was before the call and calls no Plug.
C6_InvalidDirectionFails ==
    (/\ last.op = "sort"
     /\ last.args[2] # Undef
     /\ ~ExactAscending(last.args[2])
     /\ ~ExactDescending(last.args[2]))
    => /\ FailedClean
       /\ last.ret = NoQuery
       /\ last.plug = <<>>

\* sort (key, "up") threw on a builder that holds a node
C6_Witness ==
    /\ last.op = "sort"
    /\ last.args[2] = Str(<<"u", "p">>)
    /\ last.err = "Error: Invalid sort value"
    /\ Len(last.pre) >= 1
    /\ pts[last.q] = last.pre

\* C7: where (m) with a mapping m as only argument appends one filter node
\* carrying m; where (key, value) with a scalar key appends one whereEquals
\* node carrying key and value.
C7_WhereNodes ==
    last.op = "where" =>
        /\ (InstanceofObject(last.args[1]) /\ last.args[2] = Undef) =>
               Appended([type |-> "filter", filter |-> last.args[1]])
        /\ (~InstanceofObject(last.args[1]) /\ last.args[2] # Undef) =>
               Appended([type |-> "whereEquals",
                         match |-> [prop |-> last.args[1], value |-> last.args[2]]])

\* where (key, value) with a scalar key appended a whereEquals node
C7_Witness ==
    /\ last.op = "where"
    /\ last.args[1] \in Keys
    /\ last.args[2] = Num(1)
    /\ last.err = NoError
    /\ LastNode(pts[last.q]).type = "whereEquals"

\* C8: where (m, v) with a mapping m and a non-null value v fails with an
\* error and appends no node.
C8_MappingWithValueFails ==
    (/\ last.op = "where"
     /\ InstanceofObject(last.args[1])
     /\ ~LooselyNull(last.args[2]))
    => FailedClean

\* C9: each static query constructor of the entity type (limit, skip, sort,
\* where, gt, lt, gte, lte) returns a new builder whose operation list is
\* the one node of the operation the method is named after; Model.lte
\* (key, max) yields the one node lte on key with bound max.
C9_StaticConstructorNode ==
    (/\ last.static
     /\ last.op \in ChainOps
     /\ last.op = "sort" =>
            \/ last.args[2] = Undef
            \/ ExactAscending(last.args[2])
            \/ ExactDescending(last.args[2]))
    => /\ last.err = NoError
       /\ last.ret = nq
       /\ Len(pts[nq]) = 1
       /\ pts[nq][1].type \in NodeTypes(last.op)
       /\ last.op = "lte" =>
              pts[nq][1] = [type |-> "lte", max |-> last.args[2], key |-> last.args[1]]

\* C10: sum (key) is a terminal action of the builder and of the filter
\* shortcut of the entity type: it completes and hands the operation list
\* to the Plug in one call.
C10_SumCallsPlug ==
    last.op = "sum" =>
        /\ last.err = NoError
        /\ Len(last.plug) = 1
        /\ last.plug[1].pts = pts[last.q]

-----------------------------------------------------------------------------
\* C16: when the Plug fails during a terminal action (find, findOne, count,
\* remove), the caller of the terminal action gets that same error, and the
\* terminal action made exactly one call of the Plug.
C16_PlugErrorPropagates ==
    last.op \in TerminalOps =>
        /\ Len(last.plug) = 1
        /\ last.plug[1].fn = PlugFn(last.op)
        /\ last.plug[1].outcome # "ok" => last.err = last.plug[1].outcome
        /\ last.plug[1].outcome = "ok" => last.err = NoError

\* the Plug failed during a terminal action of a builder
C16_Witness ==
    /\ last.op \in TerminalOps
    /\ ~last.static
    /\ Len(last.plug) = 1
    /\ last.plug[1].outcome = "BackendError"
    /\ last.err = "BackendError"

\* C19: builders are independent: a builder obtained from the entity type
\* is a new one and starts with an empty operation list, and no call on one
\* builder changes the operation list of another builder, nor the entity
\* type or the Plug of any builder.
C19_BuildersIndependent ==
    [][/\ \A q \in 1..MaxQueries :
             q # last'.q => /\ pts'[q] = pts[q]
                            /\ qModel'[q] = qModel[q]
                            /\ qDb'[q] = qDb[q]
       /\ \A q \in Queries : qModel'[q] = qModel[q] /\ qDb'[q] = qDb[q]
       /\ last'.static => /\ last'.q \notin Queries
                          /\ last'.pre = <<>>
                          /\ Len(pts'[last'.q]) <= 1
       /\ last'.op = "__query" => pts'[last'.q] = <<>>]_vars

\* a chain call appended to the second builder while the first holds another node
C19_Witness ==
    /\ nq = 2
    /\ last.op \in ChainOps
    /\ ~last.static
    /\ last.err = NoError
    /\ last.q = 2
    /\ Len(pts[1]) = 1
    /\ Len(pts[2]) = 1
    /\ pts[1] # pts[2]

\* C20: an entity's data is owned by that entity alone. A set, unset,
\* increment or decrement on an entity changes neither the mapping the
\* application holds nor the data of any other entity, and an assignment the
\* application makes to a mapping it holds (the one it passed to a constructor,
\* or one that get () returned) changes no entity's data.
C20_DataOwned ==
    [][/\ elast'.op \in {"set", "unset", "increment", "decrement"} =>
              /\ heap'[AppObj] = heap[AppObj]
              /\ \A e \in Entities \ {elast'.e} : heap'[eRef'[e]] = heap[eRef[e]]
       /\ elast'.op = "assign" =>
              \A e \in Entities : heap'[eRef'[e]] = heap[eRef[e]]]_vars

-----------------------------------------------------------------------------
\* Vocabulary of the claims about saved and unsaved entities

\* the entity call a step makes, by the record of the latest call
Called(op) == elast'.op = op /\ elast'.phase \in {"call", "thrown"}
Resumed(op) == elast'.op = op /\ elast'.phase = "settle"
NewestCall == pend'[Len(pend')]
EntityFrame(e) == /\ heap' = heap /\ eRef' = eRef /\ eId' = eId /\ store' = store

\* C11: remove on an entity whose id is null fails with an error, makes no
\* call of the Plug and leaves the data and the id of the entity as they were.
C11_RemoveUnsavedFails ==
    [][Called("remove") /\ LooselyNull(eId[elast'.e]) =>
           /\ elast'.phase = "thrown"
           /\ elast'.err = "Error"
           /\ pend' = pend
           /\ EntityFrame(elast'.e)]_vars

C11_Witness ==
    /\ elast.op = "remove" /\ elast.phase = "thrown" /\ elast.err = "Error"
    /\ elast.e \in Entities /\ eId[elast.e] = Null /\ pend = <<>>
    /\ Data(elast.e) = LiteralData

\* C12: remove on an entity whose id is not null asks the Plug to delete the
\* record at the identity the entity held when remove was called: removeById
\* receives that identity. After remove completes, the id of the entity is null.
C12_RemoveDeletesById ==
    [][/\ Called("remove") /\ ~LooselyNull(eId[elast'.e]) =>
              /\ elast'.phase = "call"
              /\ Len(pend') = Len(pend) + 1
              /\ NewestCall.fn = "removeById"
              /\ NewestCall.idArg = eId[elast'.e]
       /\ Resumed("remove") /\ elast'.err = NoError =>
              eId'[elast'.e] = Null]_vars

\* C13: refresh on an entity whose id is null fails with an error, makes no
\* call of the Plug and leaves the data of the entity as it was. On an entity
\* with an id it asks the Plug for the data at that identity; when it
\* completes, the data of the entity is the data the Plug stores at that
\* identity, and the id is as it was.
C13_RefreshReplacesData ==
    [][/\ Called("refresh") =>
              /\ elast'.phase = "thrown" <=> LooselyNull(eId[elast'.e])
              /\ elast'.phase = "thrown" => elast'.err = "Error" /\ pend' = pend
              /\ elast'.phase = "call" =>
                     /\ NewestCall.fn = "findDataById"
                     /\ NewestCall.idArg = eId[elast'.e]
              /\ EntityFrame(elast'.e)
       /\ Resumed("refresh") /\ elast'.err = NoError =>
              /\ IsStored(store, eId[elast'.e])
              /\ heap'[eRef'[elast'.e]] = store[eId[elast'.e].n].data
              /\ eId' = eId
              /\ store' = store
       /\ Resumed("refresh") /\ elast'.err # NoError =>
              EntityFrame(elast'.e)]_vars

\* a second instance of a record took over the data a save of the first wrote
C13_Witness ==
    /\ elast.op = "refresh" /\ elast.phase = "settle" /\ elast.err = NoError
    /\ elast.e = 2 /\ eId[2] = Num(1) /\ eId[1] = Num(1)
    /\ Data(2) = store[1].data
    /\ Data(2)[Str(<<"a">>)] = Num(2)

StoredIds(st) == {i \in DOMAIN st : st[i].present}

\* C14: the id of an entity is null from construction until its first
\* successful save. That save sets it to the identity the Plug returned. Every
\* later save, made after the one before has completed, hands that identity to
\* the Plug and leaves it as it is, and the Plug stores no further record: the
\* saves of one entity create one record.
C14_IdAssignedOnce ==
    [][/\ elast'.op = "new" => eId'[elast'.e] = Null
       /\ \A e \in Entities :
              LooselyNull(eId[e]) /\ ~LooselyNull(eId'[e]) =>
                  Resumed("save") /\ elast'.e = e /\ elast'.err = NoError
       /\ Called("save") =>
              /\ NewestCall.fn = "save"
              /\ NewestCall.idArg = eId[elast'.e]
              /\ eId' = eId /\ nIds' = nIds /\ store' = store
       /\ Resumed("save") /\ elast'.err = NoError =>
              IF LooselyNull(eId[elast'.e])
              THEN /\ ~LooselyNull(elast'.got)
                   /\ eId'[elast'.e] = elast'.got
                   /\ StoredIds(store') = StoredIds(store) \cup {elast'.got.n}
                   /\ Cardinality(StoredIds(store')) = Cardinality(StoredIds(store)) + 1
              ELSE /\ eId'[elast'.e] = eId[elast'.e]
                   /\ elast'.got = eId[elast'.e]
                   /\ StoredIds(store') = StoredIds(store)
       /\ Resumed("save") /\ elast'.err # NoError =>
              eId' = eId /\ store' = store]_vars

\* the first entity saved again the record of which a second instance exists
C14_Witness ==
    /\ elast.op = "save" /\ elast.phase = "settle" /\ elast.err = NoError
    /\ elast.e = 1 /\ eId[1] = Num(1) /\ elast.got = Num(1)
    /\ StoredIds(store) = {1}
    /\ store[1].data[Str(<<"a">>)] = Num(2)
    /\ ne = 2 /\ eId[2] = Num(1) /\ Data(2) = LiteralData

\* C15: round trip through the store. An instance that findById made for an
\* identity, or an instance that completed a refresh, returns from get () the
\* data that the saving instance held at the latest successful save to that
\* identity; so a set and a save on one instance, then a refresh on a second
\* instance of the same identity, make the second return the updated data.
C15_RoundTrip ==
    /\ elast.op \in {"refresh", "findById"}
    /\ elast.phase = "settle" /\ elast.err = NoError /\ elast.e # NoEntity
    => LET e == elast.e
           got == DbModel_get(Data(e), eId[e], Undef) IN
       /\ got.kind = "mapping"
       /\ got.map = eHeld[eId[e].n]

\* the first instance set a to 2 and saved, the second refreshed and returns it
C15_Witness ==
    /\ elast.op = "refresh" /\ elast.phase = "settle" /\ elast.err = NoError
    /\ elast.e = 2 /\ eId[1] = eId[2] /\ eId[2] # Null
    /\ eHeld[eId[2].n] = [f \in DataFields |-> Num(2)]
    /\ DbModel_get(Data(2), eId[2], Undef).map = [f \in DataFields |-> Num(2)]
    /\ DbModel_get(Data(1), eId[1], Undef).map = [f \in DataFields |-> Num(2)]

-----------------------------------------------------------------------------
\* Vocabulary of the claims about what the terminal actions return

Rec(i) == [f \in DataFields |-> Num(i)]
Min(a, b) == IF a < b THEN a ELSE b
Max(a, b) == IF a > b THEN a ELSE b

\* the node of a type in a list that holds one
NodeOf(p, type) == p[CHOOSE i \in DOMAIN p : p[i].type = type]
HasNode(p, type) == \E i \in DOMAIN p : p[i].type = type

\* x comes strictly before y in the order the sort node asks for
ComesBefore(x, y, node) ==
    IF node.desc = Bool(TRUE)
    THEN x[node.sortKey].n > y[node.sortKey].n
    ELSE x[node.sortKey].n < y[node.sortKey].n

\* rec can stand at place n of the records of seq put in the order of node
IsNth(rec, n, seq, node) ==
    /\ \E j \in DOMAIN seq : seq[j] = rec
    /\ Cardinality({j \in DOMAIN seq : ComesBefore(seq[j], rec, node)}) <= n - 1
    /\ Cardinality({j \in DOMAIN seq : ~ComesBefore(rec, seq[j], node)}) >= n

WhereOnly(F) == DbQuery_where(NewPts, F, Undef).pts

-----------------------------------------------------------------------------
\* The builder called with amounts of any kind: limit and skip take the
\* argument as it is given.

\* the arguments limit and skip are called with: no argument, a negative
\* number, a count, a string
AnyAmounts == {Undef, Num(-1), Num(2), Str(<<"u", "p">>)}

NextAmounts ==
    \/ \E M \in Models : DbModel_query(M)
    \/ HasRoom /\ \E q \in Queries, amt \in AnyAmounts : limit(q, amt)
    \/ HasRoom /\ \E q \in Queries, amt \in AnyAmounts : skip(q, amt)
    \/ \E M \in Models, amt \in AnyAmounts : DbModel_limit(M, amt)
    \/ \E M \in Models, amt \in AnyAmounts : DbModel_skip(M, amt)
    \/ \E q \in Queries, o \in PlugOutcomes : find(q, o)

SpecAmounts == Init /\ [][NextAmounts]_vars

\* a non-negative integer
IsCount(v) == v.tag = "number" /\ v.n \in Nat

\* C21: in every reachable state of a builder, every limit node and every
\* skip node of its list of operations carries an amount that is a
\* non-negative integer, whatever limit and skip were called with.
C21_AmountsAreCounts ==
    \A q \in Queries : \A i \in DOMAIN pts[q] :
        /\ pts[q][i].type = "limit" => IsCount(pts[q][i].limitAmount)
        /\ pts[q][i].type = "skip" => IsCount(pts[q][i].skipAmount)

-----------------------------------------------------------------------------
\* Entities whose calls overlap: the application starts save () or remove ()
\* while calls of the Plug are in flight, and the Plug settles the calls in
\* flight in any order.

MaxPending == 2      \* calls of the Plug in flight at once

\* the application may start a further call
MayCall == Len(pend) < MaxPending

\* the Plug settles a save without an identity (null or undefined), and
\* save () resumes: the test `id != null` fails and this.__id is left alone.
\* What such a Plug stored is not known to the entity; the store is left as it is.
Resume_save_NoIdentity(i, got) ==
    /\ i \in DOMAIN pend
    /\ pend[i].fn = "save"
    /\ LooselyNull(got)
    /\ pend' = Without(pend, i)
    /\ LET e == pend[i].e IN
       /\ eId' = [eId EXCEPT ![e] = DbModel_instance_save_resume(eId[e], got)]
       /\ Step("save", e, "settle", NoError, got)
    /\ UNCHANGED <<ne, eRef, heap, store, nIds, eHeld>>
    /\ UNCHANGED <<qvars, pvars>>

NextOverlap ==
    \/ \E a \in {Obj(<<"{", "a", ":", "1", "}">>)} : Entity_new(a)
    \/ MayCall /\ \E e \in Entities : Entity_save(e)
    \/ MayCall /\ \E e \in Entities : Entity_remove(e)
    \/ \E i \in DOMAIN pend, o \in PlugOutcomes : Resume_save(i, o)
    \/ \E i \in DOMAIN pend, got \in {Null, Undef} : Resume_save_NoIdentity(i, got)
    \/ \E i \in DOMAIN pend, o \in PlugOutcomes : Resume_remove(i, o)

SpecOverlap == Init /\ [][NextOverlap]_vars

\* a call fn of entity e is in flight in the list of calls p
InFlight(p, fn, e) == \E i \in DOMAIN p : p[i].fn = fn /\ p[i].e = e

\* C22 as stated: remove on a saved entity sets the id to null before it
\* issues removeById, the id is null as long as that call is in flight and is
\* null when the call has failed, and every save started while the remove is
\* in flight hands the Plug a null identity.
C22_NullThroughoutRemove ==
    [][/\ Called("remove") /\ ~LooselyNull(eId[elast'.e]) =>
              /\ eId'[elast'.e] = Null
              /\ NewestCall.fn = "removeById" /\ NewestCall.idArg = Null
       /\ \A e \in Entities : InFlight(pend', "removeById", e) => eId'[e] = Null
       /\ Resumed("remove") /\ elast'.err # NoError => eId'[elast'.e] = Null
       /\ Called("save") /\ InFlight(pend, "removeById", elast'.e) =>
              NewestCall.fn = "save" /\ NewestCall.idArg = Null]_vars

\* C22 amended: remove on a saved entity sets the id to null before it issues
\* removeById, which is handed null; remove does not touch the id again: when
\* the Plug settles the call, with success or with an error, the id stays as
\* it is, and the error is the one remove fails with. While the removeById is
\* in flight the id is null until a save of the same entity completes, which
\* alone gives the entity an identity; a save started while the remove is in
\* flight hands the Plug the id the entity has then, null if no save completed.
C22_RemoveNeverRestores ==
    [][/\ Called("remove") /\ ~LooselyNull(eId[elast'.e]) =>
              /\ elast'.phase = "call"
              /\ eId'[elast'.e] = Null
              /\ NewestCall.fn = "removeById" /\ NewestCall.idArg = Null
       /\ Resumed("remove") =>
              /\ eId' = eId
              /\ elast'.err \in {NoError} \cup (PlugOutcomes \ {"ok"})
              /\ elast'.err # NoError => store' = store
       /\ \A e \in Entities :
              InFlight(pend, "removeById", e) /\ eId[e] = Null /\ eId'[e] # Null =>
                  Resumed("save") /\ elast'.e = e /\ elast'.err = NoError
       /\ Called("save") /\ InFlight(pend, "removeById", elast'.e) =>
              /\ NewestCall.fn = "save"
              /\ NewestCall.idArg = eId[elast'.e]]_vars

\* a remove of a saved entity failed at the Plug while a save of the entity,
\* started after it with a null identity, is still in flight
C22_Witness ==
    /\ elast.op = "remove" /\ elast.phase = "settle" /\ elast.err = "BackendError"
    /\ elast.e = 1 /\ eId[1] = Null
    /\ StoredIds(store) = {1}
    /\ Len(pend) = 1
    /\ pend[1] = PlugCallOf("save", 1, Null, LiteralData)

\* the call of the Plug that a step settled
Settled == pend[CHOOSE i \in DOMAIN pend : pend' = Without(pend, i)]

\* C23: a save started on an entity whose id is null while another save of it
\* is in flight hands the Plug null, as the first did. Each such save that the
\* Plug completes with an identity creates a record of its own, and each
\* completion assigns the identity it obtained, so the id of the entity is the
\* one of the save that completed last. A save that obtains no identity (null)
\* from the Plug leaves the id as it is.
C23_OverlappingSaves ==
    [][/\ Called("save") /\ LooselyNull(eId[elast'.e]) /\ InFlight(pend, "save", elast'.e) =>
              /\ NewestCall.fn = "save" /\ NewestCall.e = elast'.e
              /\ NewestCall.idArg = Null
       /\ Resumed("save") /\ elast'.err = NoError /\ ~LooselyNull(elast'.got) =>
              /\ eId'[elast'.e] = elast'.got
              /\ LooselyNull(Settled.idArg) =>
                     /\ elast'.got.n \notin StoredIds(store)
                     /\ StoredIds(store') = StoredIds(store) \cup {elast'.got.n}
       /\ Resumed("save") /\ LooselyNull(elast'.got) => eId' = eId]_vars

\* two saves of the one entity, never saved before, were in flight at once:
\* the Plug holds two records and the entity has the identity of the second
C23_Witness ==
    /\ elast.op = "save" /\ elast.phase = "settle" /\ elast.err = NoError
    /\ ne = 1 /\ elast.e = 1 /\ elast.got = Num(2) /\ eId[1] = Num(2)
    /\ StoredIds(store) = {1, 2} /\ nIds = 2
    /\ store[1].data = LiteralData /\ store[2].data = LiteralData
    /\ pend = <<>>

=============================================================================
